---- MODULE Spec2Model ----
(***************************************************************************)
(* A model of parse() of src/src/parser.tsx: the line scanner that turns a *)
(* markdown text into a sequence of top-level nodes.  Texts are strings;   *)
(* the regular expressions of the source are operators over strings that   *)
(* compute what the expressions match.  Line indices are 0-based, as in    *)
(* the source; Line(i) is lines[i].                                        *)
(***************************************************************************)
EXTENDS Integers, Sequences, FiniteSets, TLC

VARIABLES
    markdown,      \* the text handed to parse
    options,       \* the ParseOptions after defaulting
    lines,         \* markdown.trim().split(/\r\n|\n/)
    index,         \* the forEach cursor: index of the next line to visit
    html,          \* the nodes pushed so far
    inCodeBlock,
    codeBlockLang,
    codeBlock,
    nestingLevel,
    skipLines,
    branch,        \* the branch the callback takes for the line at index
    fenceAt,       \* bookkeeping: index of the fence line that opened the block
    codeBlockAt,   \* bookkeeping: the indices of the lines held by codeBlock
    caller,        \* the locals of a call of parse that waits for this one
    returned       \* the node sequences returned by the calls that have ended

vars == <<markdown, options, lines, index, html, inCodeBlock, codeBlockLang,
          codeBlock, nestingLevel, skipLines, branch, fenceAt, codeBlockAt,
          caller, returned>>

-----------------------------------------------------------------------------
(* Strings.  Operators pass intermediate results as arguments.             *)

None == <<>>
Some(x) == <<x>>

NL == "\n"

\* A TLA+ string cannot hold a backtick: the character "@", which the source
\* treats nowhere specially, stands for the backtick throughout the model.
BT == "@"

QUOTE == "\""

\* The characters of the modelled alphabet that the class \s matches.
WsChars == {" ", NL}

IsWs(c) == c \in WsChars

Digits == {"0", "1", "2", "3", "4", "5", "6", "7", "8", "9"}

Min(S) == CHOOSE i \in S : \A j \in S : i <= j

Max(S) == CHOOSE i \in S : \A j \in S : j <= i

\* The smallest element of S, or 0 when S is empty.
MinOr0(S) == IF S = {} THEN 0 ELSE Min(S)

\* The characters a..b of s (1-based), clamped to s.
Sub(s, a, b) ==
    IF a > b \/ a > Len(s) \/ b < 1 THEN ""
    ELSE SubSeq(s, IF a < 1 THEN 1 ELSE a, IF b > Len(s) THEN Len(s) ELSE b)

\* The character at position i, "" outside the string.
Ch(s, i) == IF i >= 1 /\ i <= Len(s) THEN SubSeq(s, i, i) ELSE ""

From(s, i) == Sub(s, i, Len(s))

StartsAt(s, i, pat) ==
    /\ i >= 1
    /\ i + Len(pat) - 1 <= Len(s)
    /\ SubSeq(s, i, i + Len(pat) - 1) = pat

startsWith(s, pat) == StartsAt(s, 1, pat)

endsWith(s, pat) == StartsAt(s, Len(s) - Len(pat) + 1, pat)

\* The first position >= from at which pat occurs in s, or 0.
IndexFrom(s, pat, from) ==
    MinOr0({i \in from..(Len(s) - Len(pat) + 1) : StartsAt(s, i, pat)})

includes(s, pat) == IndexFrom(s, pat, 1) > 0

InClass(c, class, neg) == IF neg THEN c \notin class ELSE c \in class

RunStop(from, len, stops) ==
    IF from > len THEN 0
    ELSE IF stops = {} THEN len - from + 1
    ELSE Min(stops) - from

\* The length of the longest run of characters of the class (neg: of the
\* characters outside it) that starts at position from of s.
RunLen(s, from, class, neg) ==
    RunStop(from, Len(s),
            {i \in from..Len(s) : ~InClass(Ch(s, i), class, neg)})

\* (line.match(/^\s*/) || [""])[0].length
LeadingWs(s) == RunLen(s, 1, WsChars, FALSE)

\* The position of the last character of s that is not whitespace, or 0.
LastNonWs(s) ==
    IF \A i \in 1..Len(s) : IsWs(Ch(s, i)) THEN 0
    ELSE Max({i \in 1..Len(s) : ~IsWs(Ch(s, i))})

\* String.prototype.trim
trim(s) == Sub(s, LeadingWs(s) + 1, LastNonWs(s))

\* String.prototype.split on a one-character separator
RECURSIVE split(_, _)
split(s, sep) ==
    IF IndexFrom(s, sep, 1) = 0 THEN <<s>>
    ELSE <<Sub(s, 1, IndexFrom(s, sep, 1) - 1)>>
         \o split(From(s, IndexFrom(s, sep, 1) + 1), sep)

\* Array.prototype.slice(1, -1)
slice1(a) == IF Len(a) <= 2 THEN <<>> ELSE SubSeq(a, 2, Len(a) - 1)

RECURSIVE join(_, _)
join(a, sep) ==
    IF Len(a) = 0 THEN ""
    ELSE IF Len(a) = 1 THEN a[1]
    ELSE a[1] \o sep \o join(Tail(a), sep)

-----------------------------------------------------------------------------
(* The recognizers of the dispatch loop: each is the test of one regular   *)
(* expression of the source on a string.                                   *)

TaskPrefixAt(s, w) ==
    IF /\ Ch(s, w + 1) = "-"
       /\ IsWs(Ch(s, w + 2))
       /\ Ch(s, w + 3) = "["
       /\ Ch(s, w + 4) \in {"x", " "}
       /\ Ch(s, w + 5) = "]"
    THEN w + 5 ELSE 0

\* /^(\s*)-\s\[(x| )\]/ : the length of the match, or 0 when there is none.
TaskPrefixLen(s) == TaskPrefixAt(s, LeadingWs(s))

IsTask(s) == TaskPrefixLen(s) > 0

TaskTextAfter(s, n) ==
    IF n = 0 THEN s ELSE From(s, n + 1 + RunLen(s, n + 1, WsChars, FALSE))

\* line.replace(/^(\s*)-\s\[(x| )\]\s*/, "")
TaskText(s) == TaskTextAfter(s, TaskPrefixLen(s))

\* The number of '#' characters s starts with.
Hashes(s) == RunLen(s, 1, {"#"}, FALSE)

\* The test as it would be for #+ in place of #{1,6}.
IsHeadingOfAny(s, n) == n >= 1 /\ IsWs(Ch(s, n + 1))

IsHeadingOf(s, n) == n >= 1 /\ n <= 6 /\ IsWs(Ch(s, n + 1))

\* /^#{1,6}\s/.test(s)
IsHeading(s) == IsHeadingOf(s, Hashes(s))

LevelOf(n) == IF n = 0 THEN 1 ELSE IF n > 6 THEN 6 ELSE n

\* line.match(/^#{1,6}/)?.[0].length || 1
HeadingLevel(s) == LevelOf(Hashes(s))

\* line.replace(/^#{1,6}\s/, "")
HeadingText(s) == IF IsHeading(s) THEN From(s, Hashes(s) + 2) ELSE s

\* The position of the "}" closing a {#id} marker opened at i, or 0.
IdEnd(s, i, n) ==
    IF StartsAt(s, i, "{#") /\ n >= 1 /\ Ch(s, i + 2 + n) = "}"
    THEN i + 2 + n ELSE 0

IdEndAt(s, i) == IdEnd(s, i, RunLen(s, i + 2, {"}"}, TRUE))

\* text.match(/\{#([^}]+)\}/): the start of the first match, or 0.
IdStart(s) == MinOr0({i \in 1..Len(s) : IdEndAt(s, i) > 0})

IdOf(s, i) == IF i = 0 THEN None ELSE Some(Sub(s, i + 2, IdEndAt(s, i) - 1))

\* idMatch ? idMatch[1] : undefined
HeadingId(s) == IdOf(s, IdStart(s))

CleanTextOf(s, i) ==
    IF i = 0 THEN trim(s)
    ELSE trim(Sub(s, 1, i - 1) \o From(s, IdEndAt(s, i) + 1))

\* text.replace(/\{#([^}]+)\}/, "").trim()
HeadingCleanText(s) == CleanTextOf(s, IdStart(s))

\* The rest of a fence line after the token of t characters: nothing, or
\* whitespace and a brace-delimited attribute block.
FenceTail(s, t, w) ==
    \/ 4 + t > Len(s)
    \/ /\ w >= 1
       /\ Ch(s, 4 + t + w) = "{"
       /\ Len(s) > 4 + t + w
       /\ Ch(s, Len(s)) = "}"

FenceToken(s, t) == FenceTail(s, t, RunLen(s, 4 + t, WsChars, FALSE))

\* /^BT BT BT(\S+)?(\s+\{.*\})?$/.test(s), s trimmed
IsFence(s) ==
    /\ startsWith(s, BT \o BT \o BT)
    /\ FenceToken(s, RunLen(s, 4, WsChars, TRUE))

LangOf(s, t) == IF t = 0 THEN None ELSE Some(Sub(s, 4, 3 + t))

\* line.trim().match(/^BT BT BT(\S+)?/)?.[1] || null
FenceLang(s) == LangOf(s, RunLen(s, 4, WsChars, TRUE))

\* /^>\s/.test(s)
IsQuote(s) == Ch(s, 1) = ">" /\ IsWs(Ch(s, 2))

\* /^\|(.+\|)+/.test(s)
IsTableRow(s) ==
    /\ Ch(s, 1) = "|"
    /\ \E j \in 3..Len(s) : Ch(s, j) = "|"

\* The parts of one alignment cell \s*:?-+:?\s*\| from position i on: an
\* optional colon at a, dashes from b, an optional colon at c, a pipe at f.
AlignPipe(s, f) == Ch(s, f) = "|"
AlignColon2(s, e) == AlignPipe(s, e + RunLen(s, e, WsChars, FALSE))
AlignDashes(s, b, d) ==
    d >= 1 /\ AlignColon2(s, IF Ch(s, b + d) = ":" THEN b + d + 1 ELSE b + d)
AlignColon1(s, b) == AlignDashes(s, b, RunLen(s, b, {"-"}, FALSE))
AlignCell(s, a) == AlignColon1(s, IF Ch(s, a) = ":" THEN a + 1 ELSE a)

\* /^\|(\s*:?-+:?\s*\|)+/.test(s)
IsAlignRow(s) ==
    Ch(s, 1) = "|" /\ AlignCell(s, 2 + RunLen(s, 2, WsChars, FALSE))

ListPrefixAt(s, w, d) ==
    IF Ch(s, w + 1) \in {"-", "*", "+"} /\ IsWs(Ch(s, w + 2)) THEN w + 2
    ELSE IF d >= 1 /\ Ch(s, w + d + 1) = "." /\ IsWs(Ch(s, w + d + 2))
         THEN w + d + 2
    ELSE 0

\* /^(\s*)([-*+]|\d+\.)\s/ : the length of the match, or 0.
ListPrefixLen(s) ==
    ListPrefixAt(s, LeadingWs(s), RunLen(s, LeadingWs(s) + 1, Digits, FALSE))

IsList(s) == ListPrefixLen(s) > 0

OrderedAt(s, w, d) == d >= 1 /\ Ch(s, w + d + 1) = "."

\* /^\s*\d+\./.test(line)
IsOrdered(s) ==
    OrderedAt(s, LeadingWs(s), RunLen(s, LeadingWs(s) + 1, Digits, FALSE))

\* line.replace(/^(\s*)([-*+]|\d+\.)\s/, "")
ListText(s) == IF ListPrefixLen(s) = 0 THEN s ELSE From(s, ListPrefixLen(s) + 1)

-----------------------------------------------------------------------------
(* Options and the attribute resolver *)

ElementType == {"headings", "paragraphs", "lists", "blockquotes",
                "codeBlocks", "tables", "links", "images"}

\* A style object is a function from field names to values; <<>> is {}.
NoStyle == <<>>

\* The additionalProps of a call that passes no style and no className.
NoProps == [style |-> NoStyle, className |-> ""]

\* getElementProperties: the style and className fields of the result.
\* An absent customClasses entry and an absent className are both "".
MergedClass(custom, className) ==
    IF custom # ""
    THEN custom \o (IF className # "" THEN " " \o className ELSE "")
    ELSE className

ElementProperties(style, className) ==
    [style |-> IF DOMAIN style # {} THEN Some(style) ELSE None,
     className |-> IF className # "" THEN Some(className) ELSE None]

getElementProperties(elementType, additionalProps) ==
    ElementProperties(
        additionalProps.style @@ options.customStyles[elementType],
        MergedClass(options.customClasses[elementType],
                    additionalProps.className))

-----------------------------------------------------------------------------
(* The inline formatter *)

\* One replacement of a delimited span: d opens at i and closes at j.
RECURSIVE ReplaceDelimited(_, _, _, _)
DelimitedSpan(s, d, open, close, i, j) ==
    IF j = 0 THEN s
    ELSE Sub(s, 1, i - 1) \o open \o Sub(s, i + Len(d), j - 1) \o close
         \o ReplaceDelimited(From(s, j + Len(d)), d, open, close)

DelimitedFrom(s, d, open, close, i) ==
    DelimitedSpan(s, d, open, close, i,
                  IF i = 0 THEN 0 ELSE IndexFrom(s, d, i + Len(d) + 1))

\* processed.replace(/D(.+?)D/g, open $1 close) for a literal delimiter D:
\* the leftmost D that a later D follows after at least one character is
\* paired with the nearest such D; the scan resumes after the match.
ReplaceDelimited(s, d, open, close) ==
    DelimitedFrom(s, d, open, close, IndexFrom(s, d, 1))

\* The position of the backtick closing a code span opened at i, or 0.
CodeEnd(s, i, n) ==
    IF Ch(s, i) = BT /\ n >= 1 /\ Ch(s, i + 1 + n) = BT THEN i + 1 + n ELSE 0

CodeEndAt(s, i) == CodeEnd(s, i, RunLen(s, i + 1, {BT}, TRUE))

RECURSIVE ReplaceCode(_)
CodeSpan(s, i) ==
    IF i = 0 THEN s
    ELSE Sub(s, 1, i - 1) \o "<code>" \o Sub(s, i + 1, CodeEndAt(s, i) - 1)
         \o "</code>" \o ReplaceCode(From(s, CodeEndAt(s, i) + 1))

\* processed.replace(/BT([^BT]+)BT/g, "<code>$1</code>")
ReplaceCode(s) == CodeSpan(s, MinOr0({i \in 1..Len(s) : CodeEndAt(s, i) > 0}))

NoLink == [end |-> 0, text |-> "", url |-> "", title |-> None]

\* A title: whitespace from e to q - 1, a quote at q, a quote at c, then ")".
LinkTitle(s, i, r, e, q, c) ==
    IF q > e /\ Ch(s, q) = QUOTE /\ c > q + 1 /\ Ch(s, c) = QUOTE
       /\ Ch(s, c + 1) = ")"
    THEN [end |-> c + 1, text |-> Sub(s, i + 1, r - 1),
          url |-> Sub(s, r + 2, e - 1), title |-> Some(Sub(s, q + 1, c - 1))]
    ELSE NoLink

LinkQuote(s, i, r, e, q) ==
    LinkTitle(s, i, r, e, q, q + 1 + RunLen(s, q + 1, {QUOTE}, TRUE))

\* The url ends before position e.
LinkUrl(s, i, r, e) ==
    IF e = r + 2 THEN NoLink
    ELSE IF Ch(s, e) = ")"
    THEN [end |-> e, text |-> Sub(s, i + 1, r - 1),
          url |-> Sub(s, r + 2, e - 1), title |-> None]
    ELSE LinkQuote(s, i, r, e, e + RunLen(s, e, WsChars, FALSE))

\* The text ends before the "]" at position r.
LinkText(s, i, r) ==
    IF r > i + 1 /\ Ch(s, r) = "]" /\ Ch(s, r + 1) = "("
    THEN LinkUrl(s, i, r,
                 r + 2 + RunLen(s, r + 2, {")", QUOTE, "'", " ", NL}, TRUE))
    ELSE NoLink

\* One match of /\[([^\]]+)\]\(([^)"'\s]+)(?:\s+"([^"]+)")?\)/ starting at i:
\* [end |-> last position of the match (0: none), text, url, title].
LinkAt(s, i) ==
    IF Ch(s, i) = "[" THEN LinkText(s, i, i + 1 + RunLen(s, i + 1, {"]"}, TRUE))
    ELSE NoLink

Attr(k, v) == k \o "=" \o QUOTE \o v \o QUOTE

\* The attributes as they would be if rel were set for every target.
LinkAttributesAlwaysRel(m, props) ==
    <<Attr("href", m.url)>>
    \o (IF m.title # None THEN <<Attr("title", m.title[1])>> ELSE <<>>)
    \o <<Attr("target", options.linkTarget)>>
    \o <<Attr("rel", "noopener noreferrer")>>
    \o (IF props.style # None
        THEN <<Attr("style", "[object Object]")>> ELSE <<>>)
    \o (IF props.className # None
        THEN <<Attr("className", props.className[1])>> ELSE <<>>)

\* Object.entries(props) without the undefined values, as attributes.
LinkAttributes(m, props) ==
    <<Attr("href", m.url)>>
    \o (IF m.title # None THEN <<Attr("title", m.title[1])>> ELSE <<>>)
    \o <<Attr("target", options.linkTarget)>>
    \o (IF options.linkTarget = "_blank"
        THEN <<Attr("rel", "noopener noreferrer")>> ELSE <<>>)
    \o (IF props.style # None
        THEN <<Attr("style", "[object Object]")>> ELSE <<>>)
    \o (IF props.className # None
        THEN <<Attr("className", props.className[1])>> ELSE <<>>)

\* The replace callback of the link rule: the anchor for one match.
Anchor(m) ==
    "<a " \o join(LinkAttributes(m, getElementProperties("links", NoProps)), " ")
    \o ">" \o m.text \o "</a>"

RECURSIVE ReplaceLinks(_)
LinkSpan(s, i, m) ==
    Sub(s, 1, i - 1) \o Anchor(m) \o ReplaceLinks(From(s, m.end + 1))

FirstLink(s, i) == IF i = 0 THEN s ELSE LinkSpan(s, i, LinkAt(s, i))

\* processed.replace(the link expression, the callback)
ReplaceLinks(s) == FirstLink(s, MinOr0({i \in 1..Len(s) : LinkAt(s, i).end > 0}))

\* The replacements array of processInlineFormatting, in the source's order.
Delimited(d, open, close) == [kind |-> "delimited", d |-> d, open |-> open, close |-> close]

\* The array as it would be with each short delimiter ahead of the longer
\* ones it is a prefix of.
replacementsShortFirst ==
    <<Delimited("$", "<span class=\"math-inline\">", "</span>"),
      Delimited("^", "<sup>", "</sup>"),
      Delimited("~", "<sub>", "</sub>"),
      Delimited("~~", "<del>", "</del>"),
      Delimited("==", "<mark>", "</mark>"),
      Delimited("*", "<em>", "</em>"),
      Delimited("_", "<em>", "</em>"),
      Delimited("**", "<strong>", "</strong>"),
      Delimited("__", "<strong>", "</strong>"),
      Delimited("***", "<strong><em>", "</em></strong>"),
      Delimited("___", "<strong><em>", "</em></strong>"),
      [kind |-> "code", d |-> BT, open |-> "<code>", close |-> "</code>"],
      [kind |-> "link", d |-> "[", open |-> "<a ", close |-> "</a>"]>>

replacements ==
    <<Delimited("$", "<span class=\"math-inline\">", "</span>"),
      Delimited("~~", "<del>", "</del>"),
      Delimited("^", "<sup>", "</sup>"),
      Delimited("~", "<sub>", "</sub>"),
      Delimited("==", "<mark>", "</mark>"),
      Delimited("***", "<strong><em>", "</em></strong>"),
      Delimited("___", "<strong><em>", "</em></strong>"),
      Delimited("**", "<strong>", "</strong>"),
      Delimited("__", "<strong>", "</strong>"),
      Delimited("*", "<em>", "</em>"),
      Delimited("_", "<em>", "</em>"),
      [kind |-> "code", d |-> BT, open |-> "<code>", close |-> "</code>"],
      [kind |-> "link", d |-> "[", open |-> "<a ", close |-> "</a>"]>>

\* processed.replace(regex, replace) for one entry of the array
Replace(processed, r) ==
    IF r.kind = "delimited" THEN ReplaceDelimited(processed, r.d, r.open, r.close)
    ELSE IF r.kind = "code" THEN ReplaceCode(processed)
    ELSE ReplaceLinks(processed)

\* replacements.reduce(..., text), from entry k on
RECURSIVE Reduce(_, _)
Reduce(processed, k) ==
    IF k > Len(replacements) THEN processed
    ELSE Reduce(Replace(processed, replacements[k]), k + 1)

processInlineFormatting(text) == IF text = "" THEN "" ELSE Reduce(text, 1)

-----------------------------------------------------------------------------
(* More recognizers: image token, blockquote citation, table rows *)

NoImage == [end |-> 0, alt |-> "", src |-> "", title |-> ""]

ImageTitle(s, i, r, e, q, c) ==
    IF q > e /\ Ch(s, q) = QUOTE /\ c > q + 1 /\ Ch(s, c) = QUOTE
       /\ Ch(s, c + 1) = ")"
    THEN [end |-> c + 1, alt |-> Sub(s, i + 2, r - 1),
          src |-> Sub(s, r + 2, e - 1), title |-> Sub(s, q + 1, c - 1)]
    ELSE NoImage

ImageQuote(s, i, r, e, q) ==
    ImageTitle(s, i, r, e, q, q + 1 + RunLen(s, q + 1, {QUOTE}, TRUE))

ImageUrl(s, i, r, e) ==
    IF e = r + 2 THEN NoImage
    ELSE IF Ch(s, e) = ")"
    THEN [end |-> e, alt |-> Sub(s, i + 2, r - 1),
          src |-> Sub(s, r + 2, e - 1), title |-> ""]
    ELSE ImageQuote(s, i, r, e, e + RunLen(s, e, WsChars, FALSE))

ImageAlt(s, i, r) ==
    IF Ch(s, r) = "]" /\ Ch(s, r + 1) = "("
    THEN ImageUrl(s, i, r, r + 2 + RunLen(s, r + 2, {")", " ", NL}, TRUE))
    ELSE NoImage

\* One match of /!\[([^\]]*)\]\(([^)\s]+)(?:\s+"([^"]+)")?\)/ starting at i.
ImageAt(s, i) ==
    IF StartsAt(s, i, "![")
    THEN ImageAlt(s, i, i + 2 + RunLen(s, i + 2, {"]"}, TRUE))
    ELSE NoImage

\* s.match(the image expression): the leftmost match, end = 0 when none.
ImageMatch(s) == ImageAt(s, MinOr0({i \in 1..Len(s) : ImageAt(s, i).end > 0}))

IsImage(s) == \E i \in 1..Len(s) : ImageAt(s, i).end > 0

\* Whether \s+--\s+(.+)$ matches s from position p on, given the length w1
\* of the whitespace at p.
CiteWith(s, p, w1) ==
    /\ w1 >= 1
    /\ StartsAt(s, p + w1, "--")
    /\ IsWs(Ch(s, p + w1 + 2))
    /\ p + w1 + 3 <= Len(s)

CiteAt(s, p) == CiteWith(s, p, RunLen(s, p, WsChars, FALSE))

\* The citation (.+) when the whitespace after "--" starts at a and is w2 long.
CitationText(s, a, w2) == From(s, IF a + w2 <= Len(s) THEN a + w2 ELSE Len(s))

CitationFrom(s, a) == CitationText(s, a, RunLen(s, a, WsChars, FALSE))

\* The quote text starts at b; the citation suffix starts at p (0: none).
CitationSplit(s, b, p) ==
    IF p = 0 THEN [ok |-> TRUE, text |-> From(s, b), citation |-> None]
    ELSE [ok |-> TRUE, text |-> Sub(s, b, p - 1),
          citation |-> Some(CitationFrom(s, p + RunLen(s, p, WsChars, FALSE) + 2))]

CitationBody(s, b) ==
    IF ~(Ch(s, 1) = ">" /\ b <= Len(s))
    THEN [ok |-> FALSE, text |-> "", citation |-> None]
    ELSE CitationSplit(s, b, MinOr0({p \in (b + 1)..Len(s) : CiteAt(s, p)}))

\* line.match(/^>\s?(.+?)(?:\s+--\s+(.+))?$/): [ok, text, citation].
CitationMatch(s) == CitationBody(s, IF IsWs(Ch(s, 2)) THEN 3 ELSE 2)

\* The cells as they would be if only the first piece were dropped.
CellsToEnd(row) == Tail(split(row, "|"))

\* row.split("|").slice(1, -1): the raw cells of a table row
Cells(row) == slice1(split(row, "|"))

\* The alignment as it would be if a trailing colon alone meant "center".
AlignmentNoRight(cell) ==
    IF endsWith(trim(cell), ":") THEN "center" ELSE "left"

\* The alignment of one cell of the alignment row.
Alignment(cell) ==
    IF startsWith(trim(cell), ":") /\ endsWith(trim(cell), ":") THEN "center"
    ELSE IF endsWith(trim(cell), ":") THEN "right"
    ELSE "left"

\* alignments[i] || "left", i 1-based here
AlignOf(alignments, i) == IF i <= Len(alignments) THEN alignments[i] ELSE "left"

-----------------------------------------------------------------------------
(* Inputs *)

\* The longest document, in lines, and the largest nesting ceiling tried.
MaxLines == 4
MaxCeiling == 2

\* The defaults of the destructuring at the head of parse.
DefaultMaxNestingLevel == 6

DefaultOptions ==
    [langPrefix |-> "language-",
     customClasses |-> [e \in ElementType |-> ""],
     customStyles |-> [e \in ElementType |-> NoStyle],
     linkTarget |-> "_blank",
     sanitizeHtml |-> TRUE,
     maxNestingLevel |-> DefaultMaxNestingLevel]

\* Line pools: each document is a sequence of lines of one pool.
NestPool == {"    - c", "  - [ ] t", "# h", ": d"}
TablePool == {"| H | K |", "|--|:-:|", "|-:|", "| a | b |", "| H | K", ": d", "p"}
FencePool == {BT \o BT \o BT, BT \o BT \o BT \o "js", "x", "# h", ": d"}
HeadPool == {"## h", "  ## h", "####### h", "# t {#i}", ""}
TaskPool == {"- [x] a", "- [ ] b", "- [ ] c [x]", "  - [x] e", "1. o",
             "- ![a](u)"}
TextPool == {"<b>", "> q -- c", "  > q -- c", "![a](u)", "*e* [l](u)"}
InlinePool == {BT \o "*a*" \o BT, "***x***", "___x___", "~~x~~",
               "[l](u)", "[l](u " \o QUOTE \o "t" \o QUOTE \o ")",
               "[l](a_b_c)", "**a *b** c*"}

NestOptions ==
    {[DefaultOptions EXCEPT !.maxNestingLevel = m] : m \in 0..MaxCeiling}
TextOptions ==
    {[DefaultOptions EXCEPT !.sanitizeHtml = b] : b \in BOOLEAN}
\* customStyles: { lists: { color: "red" } }
StyledOptions ==
    [DefaultOptions EXCEPT
       !.customStyles = [e \in ElementType |->
                            IF e = "lists" THEN [color |-> "red"] ELSE NoStyle]]
TaskOptions == {DefaultOptions, StyledOptions}
FenceOptions ==
    {[DefaultOptions EXCEPT !.langPrefix = p] : p \in {"language-", "lang-"}}
LinkOptions ==
    {[DefaultOptions EXCEPT !.linkTarget = t] : t \in {"_blank", "_self"}}

\* The nesting documents take MaxLines lines (a list line, the guard that
\* fires on the line after it and the lines that follow), as do the fence
\* documents (two blocks of two fence lines each); the others one less, and the documents of inline markup, which is read line by line, two
\* less.
Cases ==
    {[pool |-> NestPool, opts |-> NestOptions, n |-> MaxLines],
     [pool |-> TablePool, opts |-> {DefaultOptions}, n |-> MaxLines - 1],
     [pool |-> FencePool, opts |-> FenceOptions, n |-> MaxLines],
     [pool |-> HeadPool, opts |-> {DefaultOptions}, n |-> MaxLines - 1],
     [pool |-> TaskPool, opts |-> TaskOptions, n |-> MaxLines - 1],
     [pool |-> TextPool, opts |-> TextOptions, n |-> MaxLines - 1],
     [pool |-> InlinePool, opts |-> LinkOptions, n |-> MaxLines - 2]}

\* The texts of at most n lines of a pool, lines joined by newlines.
Docs(pool, n) ==
    {join(d, NL) : d \in UNION {[1..k -> pool] : k \in 0..n}}

Inputs ==
    UNION {{[markdown |-> d, options |-> o] : d \in Docs(c.pool, c.n), o \in c.opts}
           : c \in Cases}

-----------------------------------------------------------------------------
(* Nodes *)

\* A pushed node; the fields a kind does not set keep these defaults.
\* srcLines is bookkeeping: the indices of the lines whose text the node holds.
Node(kind, tag, key, props) ==
    [kind |-> kind, tag |-> tag, key |-> key,
     style |-> props.style, className |-> props.className,
     level |-> 0, id |-> None, text |-> "", checked |-> FALSE,
     citation |-> None, cells |-> <<>>, rows |-> <<>>, items |-> <<>>,
     codeClass |-> None, src |-> "", title |-> None, srcLines |-> {key}]

NoElementProps == [style |-> None, className |-> None]

\* What lines[i] yields outside the array: the callback never uses it as a
\* line, because calling trim on it raises.
Undefined == "undefined"

\* lines[i]
Line(i) == IF i >= 0 /\ i < Len(lines) THEN lines[i + 1] ELSE Undefined

-----------------------------------------------------------------------------
(* The dispatch loop: one action per branch of the forEach callback *)

Visiting == index < Len(lines)

\* The guard as it would be if it let the last line through.
HasNextLoose(i) == i < Len(lines)

\* if (index < lines.length - 1)
HasNext(i) == i < Len(lines) - 1

\* The guard of the definition-list branch at line i.
IsDefinitionTerm(i) ==
    /\ HasNext(i)
    /\ trim(Line(i)) # ""
    /\ ~startsWith(trim(Line(i)), ":")
    /\ startsWith(trim(Line(i + 1)), ":")

\* The definitions collected by the while loop started at line i.
RECURSIVE Definitions(_)
Definitions(i) ==
    IF i < Len(lines) /\ startsWith(trim(Line(i)), ":")
    THEN <<trim(From(trim(Line(i)), 2))>> \o Definitions(i + 1)
    ELSE <<>>

IsBodyRow(i) ==
    /\ i < Len(lines)
    /\ IsTableRow(trim(Line(i)))
    /\ ~IsAlignRow(trim(Line(i)))

\* The number of rows the while loop collects from line i on.
RECURSIVE BodyRows(_)
BodyRows(i) == IF IsBodyRow(i) THEN 1 + BodyRows(i + 1) ELSE 0

\* Whether an alignment row directly follows the header at line i.
HasAlignmentRow(i) == i + 1 < Len(lines) /\ IsAlignRow(trim(Line(i + 1)))

\* The index of the first line the while loop examines.
FirstBodyRow(i) == IF HasAlignmentRow(i) THEN i + 2 ELSE i + 1

\* Whether the table branch at line i pushes nothing: the line follows a pipe
\* row, or is an alignment row.
IsTableContinuation(i) ==
    \/ i > 0 /\ IsTableRow(trim(Line(i - 1)))
    \/ IsAlignRow(trim(Line(i)))

\* The indices a scan from line j that accepts n lines reads: those n lines
\* and the line that stops it, unless the array ends first.
Scanned(j, n) == {k \in j..(j + n) : k < Len(lines)}

\* The indices of the lines the table branch reads besides line i.
TableLookahead(i) ==
    (IF i > 0 THEN {i - 1} ELSE {})
    \cup (IF IsTableContinuation(i) THEN {}
          ELSE (IF i + 1 < Len(lines) THEN {i + 1} ELSE {})
               \cup Scanned(FirstBodyRow(i), BodyRows(FirstBodyRow(i))))

\* The indices j for which the callback for line i, taking branch b,
\* evaluates lines[j].trim().
Lookahead(i, b) ==
    (IF b \notin {"skip", "error"} /\ HasNext(i) THEN {i + 1} ELSE {})
    \cup (IF b = "dl" THEN Scanned(i + 1, Len(Definitions(i + 1))) ELSE {})
    \cup (IF b = "table" THEN TableLookahead(i) ELSE {})

\* Branch b, or "throw" when one of the lines it reads is outside the array.
Checked(i, b) ==
    IF Lookahead(i, b) \subseteq 0..(Len(lines) - 1) THEN b ELSE "throw"

\* The first branch of the callback whose condition line i meets, in the
\* order of the source's if statements (each ends in a return), or "throw"
\* when that branch reads outside the array.
\* skip, level and fenced are the values of skipLines, nestingLevel and
\* inCodeBlock when the callback is called for line i; t is the trimmed line.
BranchOf(i, t, skip, level, fenced) ==
    IF skip > 0 THEN "skip"
    ELSE IF level > options.maxNestingLevel THEN "error"
    ELSE IF IsDefinitionTerm(i) THEN Checked(i, "dl")
    ELSE IF IsTask(t) THEN Checked(i, "task")
    ELSE IF IsHeading(t) THEN Checked(i, "heading")
    ELSE IF IsFence(t) THEN Checked(i, "fence")
    ELSE IF fenced THEN Checked(i, "body")
    ELSE IF IsQuote(t) THEN Checked(i, "quote")
    ELSE IF IsTableRow(t) THEN Checked(i, "table")
    ELSE IF IsImage(t) THEN Checked(i, "image")
    ELSE IF IsList(t) THEN Checked(i, "list")
    ELSE Checked(i, "paragraph")

\* The branch of the callback for line i; "return" after the last line.
\* (branch is "call" before forEach is entered.)
Branch(i, skip, level, fenced) ==
    IF i < Len(lines)
    THEN BranchOf(i, trim(Line(i)), skip, level, fenced)
    ELSE "return"

At(b) == branch = b

Init ==
    /\ \E in \in Inputs :
          /\ markdown = in.markdown
          /\ options = in.options
          /\ lines = split(trim(in.markdown), NL)
    /\ index = 0
    /\ html = <<>>
    /\ inCodeBlock = FALSE
    /\ codeBlockLang = None
    /\ codeBlock = <<>>
    /\ nestingLevel = 0
    /\ skipLines = 0
    /\ fenceAt = -1
    /\ codeBlockAt = <<>>
    /\ branch = "call"
    /\ caller = None
    /\ returned = <<>>

Scan == <<inCodeBlock, codeBlockLang, codeBlock, fenceAt, codeBlockAt>>
Input == <<markdown, options, lines>>
Calls == <<caller, returned>>

\* lines.forEach((line, index) => ...): the callback is called for line 0.
ForEach ==
    /\ At("call")
    /\ UNCHANGED <<Input, Calls, Scan, index, html, nestingLevel, skipLines>>
    /\ branch' = Branch(index, skipLines', nestingLevel', inCodeBlock')

\* if (skipLines > 0) { skipLines--; return; }
SkipLine ==
    /\ At("skip")
    /\ skipLines' = skipLines - 1
    /\ index' = index + 1
    /\ UNCHANGED <<Input, Calls, Scan, html, nestingLevel>>
    /\ branch' = Branch(index + 1, skipLines', nestingLevel', inCodeBlock')

ErrorText == "Maximum nesting level reached"

\* if (nestingLevel > maxNestingLevel) { html.push(<p>...</p>); return; }
NestingGuardNode(i) ==
    [Node("error", "p", i, NoElementProps) EXCEPT !.text = ErrorText]

\* The guard as it would be if it cleared the level it has just reported.
NestingGuardReset ==
    /\ At("error")
    /\ html' = Append(html, NestingGuardNode(index))
    /\ nestingLevel' = 0
    /\ index' = index + 1
    /\ UNCHANGED <<Input, Calls, Scan, skipLines>>
    /\ branch' = Branch(index + 1, skipLines', nestingLevel', inCodeBlock')

NestingGuard ==
    /\ At("error")
    /\ html' = Append(html, NestingGuardNode(index))
    /\ index' = index + 1
    /\ UNCHANGED <<Input, Calls, Scan, nestingLevel, skipLines>>
    /\ branch' = Branch(index + 1, skipLines', nestingLevel', inCodeBlock')

Formatted(texts) == [k \in 1..Len(texts) |-> processInlineFormatting(texts[k])]

\* <dl><dt>term</dt><dd>definition</dd>...</dl>: text is the term, items
\* the definitions.
DefinitionListOf(i, definitions) ==
    [Node("dl", "dl", i, getElementProperties("lists", NoProps)) EXCEPT
       !.text = processInlineFormatting(trim(Line(i))),
       !.items = Formatted(definitions),
       !.srcLines = i..(i + Len(definitions))]

DefinitionListNode(i) == DefinitionListOf(i, Definitions(i + 1))

\* The branch as it would be if it left skipLines alone.
DefinitionListNoSkip ==
    /\ At("dl")
    /\ html' = Append(html, DefinitionListNode(index))
    /\ index' = index + 1
    /\ UNCHANGED <<Input, Calls, Scan, nestingLevel, skipLines>>
    /\ branch' = Branch(index + 1, skipLines', nestingLevel', inCodeBlock')

DefinitionList ==
    /\ At("dl")
    /\ skipLines' = Len(Definitions(index + 1))
    /\ html' = Append(html, DefinitionListNode(index))
    /\ index' = index + 1
    /\ UNCHANGED <<Input, Calls, Scan, nestingLevel>>
    /\ branch' = Branch(index + 1, skipLines', nestingLevel', inCodeBlock')

\* The level as it would be if it were the indentation itself.
DepthIsIndent(line) == LeadingWs(line)

\* Math.floor(indent / 2) of the raw line
Depth(line) == LeadingWs(line) \div 2

MarginLeft(level) == [marginLeft |-> ToString(level * 20) \o "px"]

\* const checked = line.includes("[x]")
TaskChecked(line) == includes(line, "[x]")

\* The style attribute follows the spread of getElementProperties and
\* replaces its style.
TaskNode(i) ==
    [Node("task", "div", i, getElementProperties("lists", NoProps)) EXCEPT
       !.style = Some(MarginLeft(Depth(Line(i)))),
       !.checked = TaskChecked(Line(i)),
       !.text = processInlineFormatting(TaskText(Line(i)))]

TaskItem ==
    /\ At("task")
    /\ nestingLevel' = Depth(Line(index))
    /\ html' = Append(html, TaskNode(index))
    /\ index' = index + 1
    /\ UNCHANGED <<Input, Calls, Scan, skipLines>>
    /\ branch' = Branch(index + 1, skipLines', nestingLevel', inCodeBlock')

HeadingOf(i, level, text) ==
    [Node("heading", "h" \o ToString(level), i,
          getElementProperties("headings", NoProps)) EXCEPT
       !.level = level,
       !.id = HeadingId(text),
       !.text = processInlineFormatting(HeadingCleanText(text))]

HeadingNode(i) == HeadingOf(i, HeadingLevel(Line(i)), HeadingText(Line(i)))

Heading ==
    /\ At("heading")
    /\ html' = Append(html, HeadingNode(index))
    /\ index' = index + 1
    /\ UNCHANGED <<Input, Calls, Scan, nestingLevel, skipLines>>
    /\ branch' = Branch(index + 1, skipLines', nestingLevel', inCodeBlock')

\* The node as it would be if the class came from the closing fence line.
CodeBlockNodeClosing(i) ==
    [Node("code", "pre", i, getElementProperties("codeBlocks", NoProps)) EXCEPT
       !.codeClass = IF FenceLang(trim(Line(i))) # None
                     THEN Some(options.langPrefix \o FenceLang(trim(Line(i)))[1])
                     ELSE None,
       !.text = join(codeBlock, NL),
       !.items = codeBlock,
       !.srcLines = {fenceAt, i} \cup {codeBlockAt[k] : k \in 1..Len(codeBlockAt)}]

\* The closing fence: <pre><code className=...>{codeBlock.join("\n")}</code></pre>
CodeBlockNode(i) ==
    [Node("code", "pre", i, getElementProperties("codeBlocks", NoProps)) EXCEPT
       !.codeClass = IF codeBlockLang # None
                     THEN Some(options.langPrefix \o codeBlockLang[1])
                     ELSE None,
       !.text = join(codeBlock, NL),
       !.items = codeBlock,
       !.srcLines = {fenceAt, i} \cup {codeBlockAt[k] : k \in 1..Len(codeBlockAt)}]

CodeFence ==
    /\ At("fence")
    /\ inCodeBlock' = ~inCodeBlock
    /\ IF ~inCodeBlock
       THEN /\ codeBlockLang' = FenceLang(trim(Line(index)))
            /\ fenceAt' = index
            /\ html' = html
       ELSE /\ html' = Append(html, CodeBlockNode(index))
            /\ codeBlockLang' = None
            /\ fenceAt' = -1
    /\ codeBlock' = <<>>
    /\ codeBlockAt' = <<>>
    /\ index' = index + 1
    /\ UNCHANGED <<Input, Calls, nestingLevel, skipLines>>
    /\ branch' = Branch(index + 1, skipLines', nestingLevel', inCodeBlock')

\* The branch as it would be if it pushed a paragraph for the line as well.
FencedBodyAsParagraph ==
    /\ At("body")
    /\ codeBlock' = Append(codeBlock, Line(index))
    /\ codeBlockAt' = Append(codeBlockAt, index)
    /\ html' = Append(html,
            [Node("paragraph", "p", index,
                  getElementProperties("paragraphs", NoProps))
             EXCEPT !.text = processInlineFormatting(trim(Line(index)))])
    /\ index' = index + 1
    /\ UNCHANGED <<Input, Calls, inCodeBlock, codeBlockLang, fenceAt,
                   nestingLevel, skipLines>>
    /\ branch' = Branch(index + 1, skipLines', nestingLevel', inCodeBlock')

\* if (inCodeBlock) { codeBlock.push(line); return; }
FencedBody ==
    /\ At("body")
    /\ codeBlock' = Append(codeBlock, Line(index))
    /\ codeBlockAt' = Append(codeBlockAt, index)
    /\ index' = index + 1
    /\ UNCHANGED <<Input, Calls, html, inCodeBlock, codeBlockLang, fenceAt,
                   nestingLevel, skipLines>>
    /\ branch' = Branch(index + 1, skipLines', nestingLevel', inCodeBlock')

\* The text is m.text and the footer m.citation when the citation
\* expression matches the raw line, the trimmed line less its marker otherwise.
BlockquoteOf(i, m) ==
    [Node("quote", "blockquote", i,
          getElementProperties("blockquotes", NoProps)) EXCEPT
       !.text = processInlineFormatting(
                   IF m.ok THEN m.text ELSE From(trim(Line(i)), 3)),
       !.citation = IF m.ok THEN m.citation ELSE None]

BlockquoteNode(i) == BlockquoteOf(i, CitationMatch(Line(i)))

Blockquote ==
    /\ At("quote")
    /\ html' = Append(html, BlockquoteNode(index))
    /\ index' = index + 1
    /\ UNCHANGED <<Input, Calls, Scan, nestingLevel, skipLines>>
    /\ branch' = Branch(index + 1, skipLines', nestingLevel', inCodeBlock')

\* The rows the while loop collects for the header at line i.
TableBody(i) ==
    [k \in 1..BodyRows(FirstBodyRow(i)) |-> trim(Line(FirstBodyRow(i) + k - 1))]

\* The alignments array: one entry per cell of the alignment row, if any.
Alignments(i) ==
    IF HasAlignmentRow(i)
    THEN [k \in 1..Len(Cells(trim(Line(i + 1)))) |->
             Alignment(Cells(trim(Line(i + 1)))[k])]
    ELSE <<>>

\* The th or td of the k-th raw cell c.
Cell(c, k, alignments) ==
    [text |-> processInlineFormatting(trim(c)),
     textAlign |-> AlignOf(alignments, k)]

Row(cells, alignments) ==
    [k \in 1..Len(cells) |-> Cell(cells[k], k, alignments)]

\* The table pushed for the header at line i; the key is formed from the
\* local index after it has been advanced over the rows read.
TableOf(i, alignments, body) ==
    [Node("table", "table", FirstBodyRow(i) - 1 + Len(body),
          getElementProperties("tables", NoProps)) EXCEPT
       !.cells = Row(Cells(trim(Line(i))), alignments),
       !.rows = [k \in 1..Len(body) |-> Row(Cells(body[k]), alignments)],
       !.srcLines = i..(FirstBodyRow(i) - 1 + Len(body))]

TableNode(i) == TableOf(i, Alignments(i), TableBody(i))

\* The table branch: a row after a pipe row and an alignment row push nothing.
Table ==
    /\ At("table")
    /\ IF IsTableContinuation(index)
       THEN html' = html
       ELSE html' = Append(html, TableNode(index))
    /\ index' = index + 1
    /\ UNCHANGED <<Input, Calls, Scan, nestingLevel, skipLines>>
    /\ branch' = Branch(index + 1, skipLines', nestingLevel', inCodeBlock')

\* <img src alt title={title || undefined}>: text is the alt.
ImageOf(i, m) ==
    [Node("image", "img", i, getElementProperties("images", NoProps)) EXCEPT
       !.src = m.src,
       !.text = m.alt,
       !.title = IF m.title # "" THEN Some(m.title) ELSE None]

ImageNode(i) == ImageOf(i, ImageMatch(trim(Line(i))))

\* The branch as it would be if the line were wrapped in a paragraph as well.
ImageThenParagraph ==
    /\ At("image")
    /\ html' = Append(Append(html, ImageNode(index)),
            [Node("paragraph", "p", index,
                  getElementProperties("paragraphs", NoProps))
             EXCEPT !.text = processInlineFormatting(trim(Line(index)))])
    /\ index' = index + 1
    /\ UNCHANGED <<Input, Calls, Scan, nestingLevel, skipLines>>
    /\ branch' = Branch(index + 1, skipLines', nestingLevel', inCodeBlock')

Image ==
    /\ At("image")
    /\ html' = Append(html, ImageNode(index))
    /\ index' = index + 1
    /\ UNCHANGED <<Input, Calls, Scan, nestingLevel, skipLines>>
    /\ branch' = Branch(index + 1, skipLines', nestingLevel', inCodeBlock')

\* The style property follows the spread of getElementProperties and
\* replaces its style.
ListNode(i) ==
    [Node("list", IF IsOrdered(Line(i)) THEN "ol" ELSE "ul", i,
          getElementProperties("lists", NoProps)) EXCEPT
       !.style = Some(MarginLeft(Depth(Line(i)))),
       !.text = processInlineFormatting(ListText(Line(i)))]

List ==
    /\ At("list")
    /\ nestingLevel' = Depth(Line(index))
    /\ html' = Append(html, ListNode(index))
    /\ index' = index + 1
    /\ UNCHANGED <<Input, Calls, Scan, skipLines>>
    /\ branch' = Branch(index + 1, skipLines', nestingLevel', inCodeBlock')

ParagraphNode(i) ==
    [Node("paragraph", "p", i, getElementProperties("paragraphs", NoProps))
     EXCEPT !.text = processInlineFormatting(trim(Line(i)))]

\* The branch as it would be if it pushed the paragraph of a blank text too.
ParagraphAlways ==
    /\ At("paragraph")
    /\ html' = Append(html, ParagraphNode(index))
    /\ index' = index + 1
    /\ UNCHANGED <<Input, Calls, Scan, nestingLevel, skipLines>>
    /\ branch' = Branch(index + 1, skipLines', nestingLevel', inCodeBlock')

\* Nothing is pushed when the formatted text is blank.
Paragraph ==
    /\ At("paragraph")
    /\ IF trim(processInlineFormatting(trim(Line(index)))) # ""
       THEN html' = Append(html, ParagraphNode(index))
       ELSE html' = html
    /\ index' = index + 1
    /\ UNCHANGED <<Input, Calls, Scan, nestingLevel, skipLines>>
    /\ branch' = Branch(index + 1, skipLines', nestingLevel', inCodeBlock')

Next ==
    \/ ForEach
    \/ SkipLine
    \/ NestingGuard
    \/ DefinitionList
    \/ TaskItem
    \/ Heading
    \/ CodeFence
    \/ FencedBody
    \/ Blockquote
    \/ Table
    \/ Image
    \/ List
    \/ Paragraph

Spec == Init /\ [][Next]_vars

\* parse has returned: every line has been visited.
Done == index = Len(lines)

-----------------------------------------------------------------------------
(* The Markdown component: useMemo(() => { try { return parse(content,     *)
(* options) } catch { return [fallback] } }).  After "rendered", html is   *)
(* parsedContent, the children of the container.                           *)

\* An options prop of null: the destructuring at the head of parse throws a
\* TypeError on it (a default parameter value replaces undefined only).
Null == [null |-> TRUE]

\* The props of the component: the documents parse is called with, and some
\* of them with options null.
Props ==
    Inputs \cup {[markdown |-> d, options |-> Null] : d \in TextPool}

\* <p key="error">Error parsing markdown content</p>
FallbackNode ==
    [Node("fallback", "p", "error", NoElementProps) EXCEPT
       !.text = "Error parsing markdown content"]

MarkdownInit ==
    /\ \E in \in Props :
          /\ markdown = in.markdown
          /\ options = in.options
          /\ IF in.options = Null
             THEN lines = <<>> /\ branch = "throw"
             ELSE lines = split(trim(in.markdown), NL) /\ branch = "call"
    /\ index = 0
    /\ html = <<>>
    /\ inCodeBlock = FALSE
    /\ codeBlockLang = None
    /\ codeBlock = <<>>
    /\ nestingLevel = 0
    /\ skipLines = 0
    /\ fenceAt = -1
    /\ codeBlockAt = <<>>
    /\ caller = None
    /\ returned = <<>>

\* try { return parse(content, options); }
Return ==
    /\ At("return")
    /\ branch' = "rendered"
    /\ UNCHANGED <<Input, Calls, Scan, index, html, nestingLevel, skipLines>>

\* catch (error) { console.error(...); return [<p key="error">...</p>]; }
Catch ==
    /\ At("throw")
    /\ html' = <<FallbackNode>>
    /\ branch' = "rendered"
    /\ UNCHANGED <<Input, Calls, Scan, index, nestingLevel, skipLines>>

MarkdownNext ==
    \/ Next
    \/ Return
    \/ Catch

MarkdownSpec == MarkdownInit /\ [][MarkdownNext]_vars

\* The component has its children and parse had thrown.
Caught == branch = "rendered" /\ options = Null

-----------------------------------------------------------------------------
(* Two calls of parse with the same arguments: the second is entered at    *)
(* any point of the first, before its first line, between two lines or     *)
(* after its last, runs to its return, and the first goes on.              *)

\* The branches of the callback, one action each.
Branches == {"skip", "error", "dl", "task", "heading", "fence", "body",
             "quote", "table", "image", "list", "paragraph"}

\* The locals of the running call and the position of its callback.
Locals ==
    [index |-> index, html |-> html, inCodeBlock |-> inCodeBlock,
     codeBlockLang |-> codeBlockLang, codeBlock |-> codeBlock,
     nestingLevel |-> nestingLevel, skipLines |-> skipLines,
     branch |-> branch, fenceAt |-> fenceAt, codeBlockAt |-> codeBlockAt]

\* The arguments of the calls: the documents whose scan carries a nesting
\* level or an open fence from line to line, and the one-line documents of
\* the other branches.
CallInputs ==
    {[markdown |-> d, options |-> o] :
        d \in Docs(NestPool, MaxLines - 1), o \in NestOptions}
    \cup {[markdown |-> d, options |-> DefaultOptions] :
             d \in Docs(FencePool, MaxLines - 1) \cup TextPool \cup TablePool}

CallsInit ==
    /\ \E in \in CallInputs :
          /\ markdown = in.markdown
          /\ options = in.options
          /\ lines = split(trim(in.markdown), NL)
    /\ index = 0
    /\ html = <<>>
    /\ inCodeBlock = FALSE
    /\ codeBlockLang = None
    /\ codeBlock = <<>>
    /\ nestingLevel = 0
    /\ skipLines = 0
    /\ fenceAt = -1
    /\ codeBlockAt = <<>>
    /\ branch = "call"
    /\ caller = None
    /\ returned = <<>>

\* The second call as it would start if the scanning state were declared
\* outside parse: it finds the state the first call has left.
EnterShared ==
    /\ caller = None
    /\ returned = <<>>
    /\ branch \in Branches \cup {"call", "return"}
    /\ caller' = Some(Locals)
    /\ index' = 0
    /\ html' = <<>>
    /\ branch' = "call"
    /\ UNCHANGED <<Input, Scan, nestingLevel, skipLines, returned>>

\* parse is called while a call waits: the new call declares its own html,
\* inCodeBlock, codeBlockLang, codeBlock, nestingLevel and skipLines.
Enter ==
    /\ caller = None
    /\ returned = <<>>
    /\ branch \in Branches \cup {"call", "return"}
    /\ caller' = Some(Locals)
    /\ index' = 0
    /\ html' = <<>>
    /\ inCodeBlock' = FALSE
    /\ codeBlockLang' = None
    /\ codeBlock' = <<>>
    /\ nestingLevel' = 0
    /\ skipLines' = 0
    /\ fenceAt' = -1
    /\ codeBlockAt' = <<>>
    /\ branch' = "call"
    /\ UNCHANGED <<Input, returned>>

\* return html: the call that waited goes on with its own locals.
Leave ==
    /\ At("return")
    /\ caller # None
    /\ returned' = Append(returned, html)
    /\ index' = caller[1].index
    /\ html' = caller[1].html
    /\ inCodeBlock' = caller[1].inCodeBlock
    /\ codeBlockLang' = caller[1].codeBlockLang
    /\ codeBlock' = caller[1].codeBlock
    /\ nestingLevel' = caller[1].nestingLevel
    /\ skipLines' = caller[1].skipLines
    /\ fenceAt' = caller[1].fenceAt
    /\ codeBlockAt' = caller[1].codeBlockAt
    /\ branch' = caller[1].branch
    /\ caller' = None
    /\ UNCHANGED Input

CallsNext ==
    \/ Next
    \/ Enter
    \/ Leave

CallsSpec == CallsInit /\ [][CallsNext]_vars

\* Both calls have returned.
BothReturned == At("return") /\ caller = None /\ returned # <<>>

-----------------------------------------------------------------------------
(* Properties of parse *)

\* The positions of the nodes pushed so far.
Emitted == 1..Len(html)

\* The characters the inline formatter looks for: it rewrites nothing in a
\* text that holds none of them.
MarkupChars == {"$", "~", "^", "=", "*", "_", BT, "[", "]", "(", ")", "!"}

Plain(text) == \A i \in 1..Len(text) : Ch(text, i) \notin MarkupChars

\* The running level is above the ceiling: the guard fires on the next line.
Exceeded == nestingLevel > options.maxNestingLevel

\* Line i meets the test of the list branch or of the task branch and its
\* indentation gives a level above the ceiling.
TooDeep(i) ==
    /\ IsList(trim(Line(i))) \/ IsTask(trim(Line(i)))
    /\ Depth(Line(i)) > options.maxNestingLevel

\* A list or task node deeper than the ceiling was pushed for a line before i.
TooDeepBefore(i) ==
    \E k \in Emitted :
        /\ html[k].kind \in {"list", "task"}
        /\ html[k].key < i
        /\ Depth(Line(html[k].key)) > options.maxNestingLevel

\* The number of consecutive lines from line i on that start with ":".
RECURSIVE ColonLines(_)
ColonLines(i) ==
    IF i < Len(lines) /\ startsWith(trim(Line(i)), ":")
    THEN 1 + ColonLines(i + 1)
    ELSE 0

\* C1: with sanitizeHtml true, no "<" or ">" of the input reaches a node's
\* text: the text of a node whose line holds no inline markup contains
\* neither character.
SanitizedText ==
    options.sanitizeHtml =>
        \A k \in Emitted :
            Plain(Line(html[k].key)) =>
                /\ ~includes(html[k].text, "<")
                /\ ~includes(html[k].text, ">")

\* C2: every line a node is built from belongs to that node alone: no two
\* nodes share a source line.
OneNodePerLine ==
    \A j, k \in Emitted :
        j # k => html[j].srcLines \cap html[k].srcLines = {}

\* C3: while a fence is open, a line that is no fence delimiter is appended
\* to the buffer as it is and pushes no node, and a fence delimiter pushes the
\* code block whose text is the buffered lines joined by newlines.
FencedLinesBuffered ==
    [][(Visiting /\ inCodeBlock) =>
          IF IsFence(trim(Line(index)))
          THEN /\ Len(html') = Len(html) + 1
               /\ html'[Len(html')].kind = "code"
               /\ html'[Len(html')].text = join(codeBlock, NL)
          ELSE /\ html' = html
               /\ codeBlock' = Append(codeBlock, Line(index))]_vars

\* C4: the error node stands for one line only: a heading line that follows
\* the line of an error node gets its heading node.
RendersAfterError ==
    \A i \in 1..(index - 1) :
        (/\ \E k \in Emitted : html[k].kind = "error" /\ html[k].key = i - 1
         /\ IsHeading(trim(Line(i)))
         /\ ~IsDefinitionTerm(i))
        => \E k \in Emitted : html[k].kind = "heading" /\ html[k].key = i

\* C5: after parse has returned, a document with a list or task line deeper
\* than the ceiling (and not the term of a definition list) has an error node.
ErrorForTooDeepLine ==
    Done =>
        ((\E i \in 0..(Len(lines) - 1) : TooDeep(i) /\ ~IsDefinitionTerm(i))
         => \E k \in Emitted :
                html[k].kind = "error" /\ html[k].text = ErrorText)

\* C6: no error node is pushed while the level is within the ceiling; once a
\* list or task line has raised the level above it, every line visited after
\* that line has pushed exactly one error node and nothing else was pushed.
OnlyErrorsOnceExceeded ==
    /\ ~Exceeded => \A k \in Emitted : html[k].kind # "error"
    /\ Exceeded =>
          \E k \in Emitted :
              /\ html[k].kind \in {"list", "task"}
              /\ Depth(Line(html[k].key)) = nestingLevel
              /\ Len(html) - k = index - 1 - html[k].key
              /\ \A j \in 1..k : html[j].kind # "error"
              /\ \A j \in (k + 1)..Len(html) :
                    /\ html[j].kind = "error"
                    /\ html[j].tag = "p"
                    /\ html[j].text = ErrorText
                    /\ html[j].key = html[k].key + (j - k)

\* The level is above the ceiling and the last two lines visited, one of them
\* a heading line, have each pushed an error node.
OnlyErrorsOnceExceededWitness ==
    /\ Exceeded
    /\ Len(html) >= 3
    /\ html[Len(html)].kind = "error"
    /\ html[Len(html) - 1].kind = "error"
    /\ IsHeading(trim(Line(index - 1)))

\* C7: a heading node's level is the number of "#" characters its trimmed
\* line starts with.
HeadingLevelIsHashCount ==
    \A k \in Emitted :
        html[k].kind = "heading" =>
            html[k].level = Hashes(trim(Line(html[k].key)))

\* C8: a task node is checked exactly when the bracket pair that follows
\* "- " in its trimmed line is [x].
TaskCheckedIsMarker ==
    \A k \in Emitted :
        html[k].kind = "task" =>
            (html[k].checked <=> Sub(trim(Line(html[k].key)), 3, 5) = "[x]")

\* C9: a table whose header line is not directly followed by an alignment
\* row has no body rows.
HeaderOnlyWithoutAlignment ==
    \A k \in Emitted :
        (html[k].kind = "table" /\ ~HasAlignmentRow(Min(html[k].srcLines)))
        => html[k].rows = <<>>

\* What C10 asks of a visited term line i: one definition list with the line
\* as its term and the ":" lines that follow as its definitions, no node for
\* those lines, and nothing left to skip at the line after them.
DefinitionListFor(i) ==
    /\ Cardinality({k \in Emitted : html[k].kind = "dl" /\ html[k].key = i}) = 1
    /\ \A k \in Emitted :
          (html[k].kind = "dl" /\ html[k].key = i) =>
              /\ html[k].text = processInlineFormatting(trim(Line(i)))
              /\ Len(html[k].items) = ColonLines(i + 1)
              /\ \A n \in 1..Len(html[k].items) :
                    html[k].items[n] =
                        processInlineFormatting(trim(From(trim(Line(i + n)), 2)))
    /\ \A k \in Emitted : html[k].key \notin (i + 1)..(i + ColonLines(i + 1))
    /\ index = i + ColonLines(i + 1) + 1 => skipLines = 0
    /\ index <= i + ColonLines(i + 1) => skipLines = i + ColonLines(i + 1) + 1 - index

\* C10 as stated: every visited line that is not blank, does not start with
\* ":" and is followed by a ":" line has its definition list.
DefinitionListPerTerm ==
    \A i \in 0..(index - 1) : IsDefinitionTerm(i) => DefinitionListFor(i)

\* C10, amended: the same for the term lines that no list or task line deeper
\* than the ceiling precedes, the lines the nesting guard lets through.
DefinitionListPerTermWithinCeiling ==
    \A i \in 0..(index - 1) :
        (IsDefinitionTerm(i) /\ ~TooDeepBefore(i)) => DefinitionListFor(i)

\* A definition list of two definitions has been pushed, and the node of the
\* line after its definitions follows it.
DefinitionListWitness ==
    \E k \in Emitted :
        /\ html[k].kind = "dl"
        /\ Len(html[k].items) = 2
        /\ k < Len(html)
        /\ html[k + 1].key = html[k].key + 3

\* C11: when parse has thrown, the children of the component are one
\* fallback node whose text is the content prop.
FallbackIsRawContent ==
    Caught => Len(html) = 1 /\ html[1].text = markdown

\* C12: parse never raises and returns: no callback reads a line outside the
\* array (the line after, the line before, the lines a definition or table
\* scan runs over), every line has a branch of the callback to take, which
\* moves the cursor on by one line, the cursor never passes the end of the
\* array, and at the return there is at most one node per line.
ParseReturnsWithoutRaising ==
    /\ branch # "throw"
    /\ index <= Len(lines)
    /\ Len(html) <= index
    /\ Visiting => branch \in Branches \cup {"call"}
    /\ (Visiting /\ branch # "call") =>
          Lookahead(index, branch) \subseteq 0..(Len(lines) - 1)
    /\ Done <=> branch = "return"

\* parse has returned a definition list whose scan ran to the end of the
\* array.
ScanToLastLineWitness ==
    /\ Done
    /\ Len(html) >= 1
    /\ html[Len(html)].kind = "dl"
    /\ Len(html[Len(html)].items) >= 2
    /\ Len(lines) - 1 \in html[Len(html)].srcLines

\* C13: two calls with equal arguments return equal node sequences wherever
\* the second is entered, and the second starts from the initial scanning
\* state whatever the first has left in its own.
EqualCallsReturnEqualNodes ==
    /\ BothReturned => returned[1] = html
    /\ (caller # None /\ At("call")) =>
          /\ inCodeBlock = FALSE
          /\ codeBlockLang = None
          /\ codeBlock = <<>>
          /\ nestingLevel = 0
          /\ skipLines = 0

\* Both calls have returned, each with an error node after a list node: the
\* nesting level counted in the result of each.
EqualCallsWitness ==
    /\ BothReturned
    /\ Len(html) = 3
    /\ html[2].kind = "list"
    /\ html[3].kind = "error"
    /\ Len(returned[1]) = 3

\* The trimmed line is one code span: a backtick, a text without backticks,
\* a backtick.
IsCodeSpan(t) ==
    /\ Len(t) >= 3
    /\ Ch(t, 1) = BT
    /\ Ch(t, Len(t)) = BT
    /\ \A j \in 2..(Len(t) - 1) : Ch(t, j) # BT

\* C14: the content of a code span is emitted as it is: the paragraph of a
\* line that is one code span has the text <code>c</code>, c the characters
\* between the backticks, unchanged.
CodeSpanIsLiteral ==
    \A k \in Emitted :
        (html[k].kind = "paragraph" /\ IsCodeSpan(trim(Line(html[k].key))))
        => html[k].text =
              "<code>"
              \o Sub(trim(Line(html[k].key)), 2, Len(trim(Line(html[k].key))) - 1)
              \o "</code>"

\* The trimmed line t is a text without markup characters between two
\* delimiters d.
Wrapped(t, d) ==
    /\ Len(t) > 2 * Len(d)
    /\ startsWith(t, d)
    /\ endsWith(t, d)
    /\ Plain(Sub(t, Len(d) + 1, Len(t) - Len(d)))

Inner(t, d) == Sub(t, Len(d) + 1, Len(t) - Len(d))

\* C15: the paragraph of a line ***x*** or ___x___ has the text
\* <strong><em>x</em></strong>, and the paragraph of a line ~~x~~ the text
\* <del>x</del>: the shorter rule never takes a part of the longer delimiter.
LongDelimiterWins ==
    \A k \in Emitted :
        html[k].kind = "paragraph" =>
            /\ Wrapped(trim(Line(html[k].key)), "***") =>
                  html[k].text = "<strong><em>"
                                 \o Inner(trim(Line(html[k].key)), "***")
                                 \o "</em></strong>"
            /\ Wrapped(trim(Line(html[k].key)), "___") =>
                  html[k].text = "<strong><em>"
                                 \o Inner(trim(Line(html[k].key)), "___")
                                 \o "</em></strong>"
            /\ Wrapped(trim(Line(html[k].key)), "~~") =>
                  html[k].text = "<del>"
                                 \o Inner(trim(Line(html[k].key)), "~~")
                                 \o "</del>"

\* The paragraphs of a ___x___ line and of a ~~x~~ line have been pushed.
LongDelimiterWitness ==
    /\ Len(html) = 2
    /\ html[1].kind = "paragraph"
    /\ Line(html[1].key) = "___x___"
    /\ html[2].kind = "paragraph"
    /\ Line(html[2].key) = "~~x~~"

\* The element type whose custom style a node of the kind takes.
ElementTypeOf(kind) ==
    IF kind = "heading" THEN "headings"
    ELSE IF kind = "paragraph" THEN "paragraphs"
    ELSE IF kind = "quote" THEN "blockquotes"
    ELSE IF kind = "code" THEN "codeBlocks"
    ELSE IF kind = "table" THEN "tables"
    ELSE IF kind = "image" THEN "images"
    ELSE "lists"

\* The style fields computed for a node: the margin of a list or task node.
ComputedStyle(n) ==
    IF n.kind \in {"list", "task"} THEN MarginLeft(Depth(Line(n.key)))
    ELSE NoStyle

\* The computed fields over the fields of the custom style.
MergedStyle(n) == ComputedStyle(n) @@ options.customStyles[ElementTypeOf(n.kind)]

\* C16: the style of a node is the custom style of its element type
\* overridden field by field by the computed fields, and undefined when
\* there is neither.
StyleIsCustomOverridden ==
    \A k \in Emitted :
        html[k].kind # "error" =>
            html[k].style = IF DOMAIN MergedStyle(html[k]) = {} THEN None
                            ELSE Some(MergedStyle(html[k]))

\* The j-th segment between the pipes of line i, without the blanks around it.
Segment(i, j) == trim(split(trim(Line(i)), "|")[j + 1])

\* The number of segments between the first and the last pipe of line i.
Segments(i) == Len(split(trim(Line(i)), "|")) - 2

\* What C17 asks of column j, given the alignment row at line a.
ColumnAlignment(a, j) ==
    IF j > Segments(a) THEN "left"
    ELSE IF Ch(Segment(a, j), 1) = ":"
            /\ Ch(Segment(a, j), Len(Segment(a, j))) = ":" THEN "center"
    ELSE IF Ch(Segment(a, j), Len(Segment(a, j))) = ":" THEN "right"
    ELSE "left"

\* C17: in a table whose header is followed by an alignment row, every header
\* cell and every body cell of column j is aligned as the j-th cell of that
\* row says (left when the row has no j-th cell), and the body rows are the
\* lines after the alignment row, one row per line.
AlignmentPerColumn ==
    \A k \in Emitted :
        (html[k].kind = "table" /\ HasAlignmentRow(Min(html[k].srcLines))) =>
            /\ \A j \in 1..Len(html[k].cells) :
                  html[k].cells[j].textAlign =
                      ColumnAlignment(Min(html[k].srcLines) + 1, j)
            /\ Len(html[k].rows) = Cardinality(html[k].srcLines) - 2
            /\ \A r \in 1..Len(html[k].rows) :
                  /\ ~IsAlignRow(trim(Line(Min(html[k].srcLines) + 1 + r)))
                  /\ Len(html[k].rows[r]) = Segments(Min(html[k].srcLines) + 1 + r)
                  /\ \A j \in 1..Len(html[k].rows[r]) :
                        /\ html[k].rows[r][j].text =
                              Segment(Min(html[k].srcLines) + 1 + r, j)
                        /\ html[k].rows[r][j].textAlign =
                              ColumnAlignment(Min(html[k].srcLines) + 1, j)

\* A table with a right-aligned first column, a second column the alignment
\* row has no cell for, and a body row.
AlignmentWitness ==
    \E k \in Emitted :
        /\ html[k].kind = "table"
        /\ Len(html[k].cells) = 2
        /\ html[k].cells[1].textAlign = "right"
        /\ html[k].cells[2].textAlign = "left"
        /\ Len(html[k].rows) = 1
        /\ Len(html[k].rows[1]) = 2

\* Line i is a pipe row on its own that the table branch takes: no pipe row
\* before it, no alignment row and no pipe row after it, not itself an
\* alignment row, and not the term of a definition list.
IsLonePipeRow(i) ==
    /\ IsTableRow(trim(Line(i)))
    /\ ~IsAlignRow(trim(Line(i)))
    /\ i > 0 => ~IsTableRow(trim(Line(i - 1)))
    /\ i + 1 < Len(lines) => ~IsTableRow(trim(Line(i + 1)))
    /\ ~IsDefinitionTerm(i)

\* The positions of the pipes of the trimmed line i.
Pipes(i) == {p \in 1..Len(trim(Line(i))) : Ch(trim(Line(i)), p) = "|"}

\* The text between the first and the last pipe of line i, cut at the pipes.
Between(i) ==
    split(Sub(trim(Line(i)), Min(Pipes(i)) + 1, Max(Pipes(i)) - 1), "|")

\* C18: a visited pipe row on its own has exactly one node, a table with no
\* body rows whose header cells are the trimmed segments between the first
\* and the last pipe of the row.
LonePipeRowIsHeaderOnly ==
    \A i \in 0..(index - 1) :
        IsLonePipeRow(i) =>
            /\ Cardinality({k \in Emitted : i \in html[k].srcLines}) = 1
            /\ \A k \in Emitted :
                  i \in html[k].srcLines =>
                      /\ html[k].kind = "table"
                      /\ html[k].rows = <<>>
                      /\ Len(html[k].cells) = Len(Between(i))
                      /\ \A j \in 1..Len(html[k].cells) :
                            html[k].cells[j].text = trim(Between(i)[j])

\* The table of a lone row without a closing pipe: one header cell, the
\* text after the last pipe is lost.
LonePipeRowWitness ==
    \E k \in Emitted :
        /\ html[k].kind = "table"
        /\ IsLonePipeRow(html[k].key)
        /\ ~endsWith(trim(Line(html[k].key)), "|")
        /\ Len(html[k].cells) = 1
        /\ html[k].cells[1].text = "H"

\* The language token of a trimmed fence line: what follows the three
\* backticks, up to the first blank.
Token(t) ==
    IF IndexFrom(t, " ", 4) = 0 THEN From(t, 4)
    ELSE Sub(t, 4, IndexFrom(t, " ", 4) - 1)

\* C19: the class of a code block is langPrefix followed by the token of the
\* fence line that opened the block, the first of its lines, and is absent
\* when that line has no token, whatever the closing fence and the blocks
\* before it carry.
CodeClassIsOpeningToken ==
    \A k \in Emitted :
        html[k].kind = "code" =>
            html[k].codeClass =
                IF Token(trim(Line(Min(html[k].srcLines)))) = "" THEN None
                ELSE Some(options.langPrefix
                          \o Token(trim(Line(Min(html[k].srcLines)))))

\* Two blocks: the first opened with a token and closed without one, the
\* second opened without a token and closed with one.
CodeClassWitness ==
    /\ Len(html) = 2
    /\ html[1].kind = "code"
    /\ html[1].codeClass # None
    /\ html[2].kind = "code"
    /\ html[2].codeClass = None
    /\ Token(trim(Line(html[2].key))) # ""

\* C20: a node text that holds an anchor holds target="linkTarget", holds
\* rel="noopener noreferrer" exactly when linkTarget is _blank, and holds a
\* title attribute exactly when the link of its line has a quoted title.
AnchorAttributes ==
    \A k \in Emitted :
        includes(html[k].text, "<a ") =>
            /\ includes(html[k].text,
                        " target=" \o QUOTE \o options.linkTarget \o QUOTE)
            /\ includes(html[k].text,
                        " rel=" \o QUOTE \o "noopener noreferrer" \o QUOTE)
               <=> options.linkTarget = "_blank"
            /\ includes(html[k].text, " title=" \o QUOTE \o "t" \o QUOTE)
               <=> includes(Line(html[k].key), " " \o QUOTE \o "t" \o QUOTE \o ")")

\* The anchor of a link with a title, rendered with a target other than
\* _blank.
AnchorWitness ==
    \E k \in Emitted :
        /\ options.linkTarget = "_self"
        /\ includes(Line(html[k].key), QUOTE)
        /\ includes(html[k].text, "<a href=")
        /\ includes(html[k].text, ">l</a>")

\* The text has no character that is not whitespace.
IsBlank(text) == \A i \in 1..Len(text) : IsWs(Ch(text, i))

\* C21: for the empty text and for a text of whitespace only, no node is
\* ever pushed, whatever the options: parse returns the empty sequence.
BlankInputHasNoNodes ==
    IsBlank(markdown) => html = <<>>

\* parse has returned for a text of two newlines.
BlankInputWitness ==
    /\ Done
    /\ branch = "return"
    /\ Len(markdown) = 2
    /\ IsBlank(markdown)

\* Line i is inside a fence: a line of a code block, or a line after the
\* fence that is open.
InFence(i) ==
    \/ inCodeBlock /\ fenceAt < i
    \/ \E k \in Emitted : html[k].kind = "code" /\ i \in html[k].srcLines

\* C22: the level of a heading node is in 1..6 and names its tag, and a
\* visited line that starts with seven or more "#" (outside a fence, not the
\* term of a definition list, not stopped by the nesting guard) has one node,
\* a paragraph.
HeadingLevelInRange ==
    /\ \A k \in Emitted :
          html[k].kind = "heading" =>
              /\ html[k].level \in 1..6
              /\ html[k].tag = "h" \o ToString(html[k].level)
    /\ \A i \in 0..(index - 1) :
          (/\ Hashes(trim(Line(i))) >= 7
           /\ ~IsDefinitionTerm(i)
           /\ ~TooDeepBefore(i)
           /\ ~InFence(i))
          => /\ Cardinality({k \in Emitted : html[k].key = i}) = 1
             /\ \A k \in Emitted :
                   html[k].key = i =>
                       /\ html[k].kind = "paragraph"
                       /\ html[k].tag = "p"

\* A heading of level 2 and, after it, the paragraph of a line of seven "#".
HeadingLevelWitness ==
    /\ Len(html) = 2
    /\ html[1].kind = "heading"
    /\ html[1].level = 2
    /\ html[2].kind = "paragraph"
    /\ Hashes(trim(Line(html[2].key))) = 7

\* C23: every visited pipe row outside a fence (and not stopped by the
\* nesting guard) is a line of an emitted node: the header or a body row of
\* a table, or the term of a definition list.  Stated for the rows that are
\* not alignment rows: the rows that carry cells.
PipeRowsRepresented ==
    \A i \in 0..(index - 1) :
        (/\ IsTableRow(trim(Line(i)))
         /\ ~IsAlignRow(trim(Line(i)))
         /\ ~InFence(i)
         /\ ~TooDeepBefore(i))
        => \E k \in Emitted : i \in html[k].srcLines

\* C24: the anchor of a line that is one link token [text](url) has the url
\* of the token, character for character, as its href.
HrefIsUrl ==
    \A k \in Emitted :
        (/\ html[k].kind = "paragraph"
         /\ LinkAt(trim(Line(html[k].key)), 1).end = Len(trim(Line(html[k].key))))
        => includes(html[k].text,
                    "<a href=" \o QUOTE
                    \o LinkAt(trim(Line(html[k].key)), 1).url \o QUOTE \o " ")

\* The names of the tags the inline formatter injects.
InlineTags == {"span", "del", "sup", "sub", "mark", "strong", "em", "code", "a"}

\* The names n for which an opening tag <n> or <n ...> starts at position i.
OpenAt(s, i) ==
    {n \in InlineTags :
        StartsAt(s, i, "<" \o n) /\ Ch(s, i + 1 + Len(n)) \in {">", " "}}

\* The names n for which the closing tag </n> starts at position i.
CloseAt(s, i) == {n \in InlineTags : StartsAt(s, i, "</" \o n \o ">")}

\* Whether the injected tags of s from the "<" at position i on (0: no
\* more) are closed in the reverse order of their opening; stack holds the
\* tags open so far.
RECURSIVE NestedFrom(_, _, _)
NestedFrom(s, i, stack) ==
    IF i = 0 THEN stack = <<>>
    ELSE IF CloseAt(s, i) # {}
    THEN /\ stack # <<>>
         /\ stack[Len(stack)] \in CloseAt(s, i)
         /\ NestedFrom(s, IndexFrom(s, "<", i + 1),
                       SubSeq(stack, 1, Len(stack) - 1))
    ELSE IF OpenAt(s, i) # {}
    THEN NestedFrom(s, IndexFrom(s, "<", i + 1),
                    Append(stack, CHOOSE n \in OpenAt(s, i) : TRUE))
    ELSE NestedFrom(s, IndexFrom(s, "<", i + 1), stack)

WellNested(s) == NestedFrom(s, IndexFrom(s, "<", 1), <<>>)

\* C25: in every text the inline formatter has produced (the text of a node,
\* the definitions of a definition list) the injected tags are well nested.
InlineMarkupWellNested ==
    \A k \in Emitted :
        html[k].kind \in {"paragraph", "list", "task", "heading", "quote", "dl"} =>
            /\ WellNested(html[k].text)
            /\ \A j \in 1..Len(html[k].items) : WellNested(html[k].items[j])


\* The visited lines that took the fence branch: fence lines that are not
\* definition terms and not behind the nesting guard.
FenceLines ==
    {i \in 0..(index - 1) :
        /\ IsFence(trim(Line(i)))
        /\ ~IsDefinitionTerm(i)
        /\ ~TooDeepBefore(i)}

CodeNodes == {k \in Emitted : html[k].kind = "code"}

\* C26: a fence left open at the end of the input gives no code node and the
\* lines buffered after it are in no output node; the number of code nodes is
\* the number of closing fences reached (every second fence line visited).
OpenFenceIsDropped ==
    /\ Cardinality(FenceLines)
         = 2 * Cardinality(CodeNodes) + (IF inCodeBlock THEN 1 ELSE 0)
    /\ inCodeBlock =>
         /\ fenceAt \in FenceLines
         /\ \A k \in Emitted :
              /\ fenceAt \notin html[k].srcLines
              /\ \A j \in 1..Len(codeBlockAt) :
                   codeBlockAt[j] \notin html[k].srcLines
         /\ \A k \in CodeNodes : html[k].key < fenceAt

OpenFenceWitness ==
    /\ Done
    /\ branch = "return"
    /\ inCodeBlock
    /\ Len(codeBlock) = 1
    /\ Cardinality(CodeNodes) = 1
    /\ Len(html) = 1

\* Line j is a list or task line indented by more than twice the ceiling
\* plus one: floor(indent / 2) is strictly greater than maxNestingLevel.
IndentedPastCeiling(j) ==
    /\ IsList(trim(Line(j))) \/ IsTask(trim(Line(j)))
    /\ LeadingWs(Line(j)) \div 2 > options.maxNestingLevel

\* C27: an error node is emitted only for a line that comes after a list or
\* task line whose depth floor(indent / 2) is strictly greater than
\* maxNestingLevel; a list exactly maxNestingLevel deep, and a document
\* without list or task lines, give no error node.
ErrorOnlyPastCeiling ==
    \A k \in Emitted :
        html[k].kind = "error" =>
            \E j \in 0..(html[k].key - 1) : IndentedPastCeiling(j)

ErrorOnlyPastCeilingWitness ==
    /\ Len(html) = 4
    /\ html[2].kind = "task"
    /\ LeadingWs(Line(1)) \div 2 = options.maxNestingLevel
    /\ html[3].kind = "list"
    /\ html[4].kind = "error"

\* C28: the cells of a body row beyond the header's column count are
\* dropped: no body row of a table has more cells than its header row.
BodyRowWithinHeader ==
    \A k \in Emitted :
        html[k].kind = "table" =>
            \A r \in 1..Len(html[k].rows) :
                Len(html[k].rows[r]) <= Len(html[k].cells)

\* The trimmed line t holds " -- " with quote text before it and citation
\* text after it.
HasCitationSuffix(t) ==
    \E p \in 4..(Len(t) - 4) : Sub(t, p, p + 3) = " -- "

\* The visited lines that took the blockquote branch.
QuoteLines ==
    {i \in 0..(index - 1) :
        /\ IsQuote(trim(Line(i)))
        /\ ~IsDefinitionTerm(i)
        /\ ~InFence(i)
        /\ ~TooDeepBefore(i)}

\* C29: every line that took the blockquote branch has a blockquote node of
\* its own, and that node has a citation child, cut off the quote text,
\* exactly when the line holds " -- " followed by text, whatever whitespace
\* the raw line starts with.
QuoteCitationSplit ==
    /\ \A i \in QuoteLines :
         Cardinality({k \in Emitted : html[k].kind = "quote" /\ html[k].key = i}) = 1
    /\ \A k \in Emitted :
         html[k].kind = "quote" =>
            /\ html[k].srcLines = {html[k].key}
            /\ IF HasCitationSuffix(trim(Line(html[k].key)))
               THEN /\ html[k].citation # None
                    /\ ~includes(html[k].text, " -- ")
               ELSE html[k].citation = None

\* The recognizers in the order the claim gives them; "code" is the fence
\* delimiter and "body" the accumulation of a line inside an open fence.
RecognizerOrder ==
    <<"dl", "task", "heading", "code", "body", "quote", "table", "image",
      "list", "paragraph">>

\* Recognizer r accepts line i in the current state of the call.
Matches(i, r) ==
    CASE r = "dl" -> IsDefinitionTerm(i)
      [] r = "task" -> IsTask(trim(Line(i)))
      [] r = "heading" -> IsHeading(trim(Line(i)))
      [] r = "code" -> IsFence(trim(Line(i)))
      [] r = "body" -> inCodeBlock
      [] r = "quote" -> IsQuote(trim(Line(i)))
      [] r = "table" -> IsTableRow(trim(Line(i)))
      [] r = "image" -> IsImage(trim(Line(i)))
      [] r = "list" -> IsList(trim(Line(i)))
      [] OTHER -> TRUE

FirstMatch(i) ==
    RecognizerOrder[Min({n \in 1..Len(RecognizerOrder) :
                            Matches(i, RecognizerOrder[n])})]

\* C30: a visit of a line pushes at most one node, and the node it pushes is
\* the one of the first recognizer, in the order definition list, task item,
\* heading, code fence, fenced body, blockquote, table, image, list,
\* paragraph, that accepts the line (the error node when the nesting guard
\* fires); the output never has more nodes than the input has lines.
FirstMatchWins ==
    /\ [](Len(html) <= index /\ index <= Len(lines))
    /\ [][/\ Len(html') <= Len(html) + 1
          /\ Len(html') = Len(html) + 1 =>
                /\ index' = index + 1
                /\ SubSeq(html', 1, Len(html)) = html
                /\ IF Exceeded
                   THEN html'[Len(html')].kind = "error"
                   ELSE html'[Len(html')].kind = FirstMatch(index)]_vars

FirstMatchWitness ==
    /\ Done
    /\ Len(html) = 2
    /\ html[1].kind = "task"
    /\ IsList(trim(Line(0)))
    /\ html[2].kind = "image"
    /\ IsList(trim(Line(1)))

=========================================================================
